---- MODULE Spec2Model ----
(***************************************************************************)
(* ClinicalPriorAuthAgent: the TF-IDF retrieval engine (src/rag_engine.py) *)
(* and, of src/main.py, the tools, the loop of run_agent and the case      *)
(* store behind submit_case, submit_review and get_stats.                  *)
(*                                                                         *)
(* Text is a sequence of one-character strings.  A float is a fixed-point  *)
(* integer kept to six decimal places, every operation rounding to the     *)
(* nearest as the doubles of the program do at their own precision; a      *)
(* similarity_score (round(x, 4)) counts 1/10000.                          *)
(***************************************************************************)
EXTENDS Integers, Sequences, FiniteSets, TLC

\* ------------------------------------------------------------------------
\* Bounds of the model
\* ------------------------------------------------------------------------
MaxDocs == 2
MaxTopK == 2
NumThreads == 2
MaxLen == 4
MaxVaried == 2
MaxReplies == 2
MaxCases == 2

\* ------------------------------------------------------------------------
\* Characters and strings
\* ------------------------------------------------------------------------
\* The characters re's class [a-z0-9] accepts, in code-point order.
Alnum ==
    <<"0","1","2","3","4","5","6","7","8","9",
      "a","b","c","d","e","f","g","h","i","j","k","l","m",
      "n","o","p","q","r","s","t","u","v","w","x","y","z">>

UpperCase ==
    <<"A","B","C","D","E","F","G","H","I","J","K","L","M",
      "N","O","P","Q","R","S","T","U","V","W","X","Y","Z">>

\* The characters str.strip() removes at both ends.
Whitespace == {" ", "\n", "\t"}

\* character -> position in Alnum
OrdOf == [c \in {Alnum[i] : i \in 1..Len(Alnum)} |-> CHOOSE i \in 1..Len(Alnum) : Alnum[i] = c]

IsAlnum(c) == c \in DOMAIN OrdOf

Ord(c) == OrdOf[c]

\* upper-case letter -> lower-case letter
LowerOf == [c \in {UpperCase[i] : i \in 1..Len(UpperCase)} |->
               Alnum[10 + (CHOOSE i \in 1..Len(UpperCase) : UpperCase[i] = c)]]

\* str.lower() on one character.
LowerChar(c) == IF c \in DOMAIN LowerOf THEN LowerOf[c] ELSE c

lower(text) == [i \in 1..Len(text) |-> LowerChar(text[i])]

\* Python's < on two strings over [a-z0-9]: code-point order, a proper prefix first.
RECURSIVE StrLess(_, _)
StrLess(s, t) ==
    IF t = <<>> THEN FALSE
    ELSE IF s = <<>> THEN TRUE
    ELSE IF s[1] # t[1] THEN Ord(s[1]) < Ord(t[1])
    ELSE StrLess(Tail(s), Tail(t))

\* str.strip(): leading and trailing whitespace removed.
RECURSIVE lstrip(_)
lstrip(s) ==
    IF s # <<>> /\ s[1] \in Whitespace THEN lstrip(Tail(s)) ELSE s

RECURSIVE rstrip(_)
rstrip(s) ==
    IF s # <<>> /\ s[Len(s)] \in Whitespace THEN rstrip(SubSeq(s, 1, Len(s) - 1)) ELSE s

strip(s) == rstrip(lstrip(s))

\* ------------------------------------------------------------------------
\* _tokenize
\* ------------------------------------------------------------------------
stopwords == {
    <<"t","h","e">>, <<"a">>, <<"a","n">>, <<"i","s">>, <<"a","r","e">>, <<"w","a","s">>,
    <<"w","e","r","e">>, <<"b","e">>, <<"b","e","e","n">>, <<"b","e","i","n","g">>,
    <<"h","a","v","e">>, <<"h","a","s">>, <<"h","a","d">>, <<"d","o">>, <<"d","o","e","s">>,
    <<"d","i","d">>, <<"w","i","l","l">>, <<"w","o","u","l","d">>, <<"s","h","a","l","l">>,
    <<"s","h","o","u","l","d">>, <<"m","a","y">>, <<"m","i","g","h","t">>, <<"m","u","s","t">>,
    <<"c","a","n">>, <<"c","o","u","l","d">>, <<"o","f">>, <<"i","n">>, <<"t","o">>,
    <<"f","o","r">>, <<"w","i","t","h">>, <<"o","n">>, <<"a","t">>, <<"f","r","o","m">>,
    <<"b","y">>, <<"a","b","o","u","t">>, <<"a","s">>, <<"i","n","t","o">>,
    <<"t","h","r","o","u","g","h">>, <<"d","u","r","i","n","g">>, <<"b","e","f","o","r","e">>,
    <<"a","f","t","e","r">>, <<"a","b","o","v","e">>, <<"b","e","l","o","w">>,
    <<"b","e","t","w","e","e","n">>, <<"a","n","d">>, <<"b","u","t">>, <<"o","r">>,
    <<"n","o","r">>, <<"n","o","t">>, <<"s","o">>, <<"y","e","t">>, <<"b","o","t","h">>,
    <<"e","i","t","h","e","r">>, <<"n","e","i","t","h","e","r">>, <<"e","a","c","h">>,
    <<"e","v","e","r","y">>, <<"a","l","l">>, <<"a","n","y">>, <<"f","e","w">>,
    <<"m","o","r","e">>, <<"m","o","s","t">>, <<"o","t","h","e","r">>, <<"s","o","m","e">>,
    <<"s","u","c","h">>, <<"n","o">>, <<"o","n","l","y">>, <<"o","w","n">>,
    <<"s","a","m","e">>, <<"t","h","a","n">>, <<"t","o","o">>, <<"v","e","r","y">>,
    <<"j","u","s","t">>, <<"b","e","c","a","u","s","e">>, <<"i","f">>, <<"w","h","e","n">>,
    <<"w","h","i","l","e">>, <<"t","h","i","s">>, <<"t","h","a","t">>, <<"t","h","e","s","e">>,
    <<"t","h","o","s","e">>, <<"i","t">>, <<"i","t","s">>, <<"i">>, <<"m","e">>, <<"m","y">>,
    <<"w","e">>, <<"o","u","r">>, <<"y","o","u">>, <<"y","o","u","r">>, <<"h","e">>,
    <<"h","i","m">>, <<"h","i","s">>, <<"s","h","e">>, <<"h","e","r">>, <<"t","h","e","y">>,
    <<"t","h","e","m">>, <<"t","h","e","i","r">>
}

\* re.findall(r'[a-z0-9]+', s): the maximal runs of accepted characters, in order.
\* cur is the run being read at position i.
RECURSIVE findall(_, _, _)
findall(s, i, cur) ==
    IF i > Len(s) THEN (IF cur = <<>> THEN <<>> ELSE <<cur>>)
    ELSE IF IsAlnum(s[i]) THEN findall(s, i + 1, Append(cur, s[i]))
    ELSE (IF cur = <<>> THEN <<>> ELSE <<cur>>) \o findall(s, i + 1, <<>>)

KeepToken(t) == t \notin stopwords /\ Len(t) > 1

\* A tokenizer that takes the text as it is written.
tokenizeAsWritten(text) == SelectSeq(findall(text, 1, <<>>), KeepToken)

tokenize(text) == SelectSeq(findall(lower(text), 1, <<>>), KeepToken)

\* collections.Counter(tokens): token -> number of occurrences.
Counter(tokens) ==
    [t \in {tokens[i] : i \in 1..Len(tokens)} |->
        Cardinality({i \in 1..Len(tokens) : tokens[i] = t})]

\* ------------------------------------------------------------------------
\* Floating point, as fixed point
\* ------------------------------------------------------------------------
\* Every float is kept to six decimal places: the integer x stands for x / Scale.
Scale == 1000000

\* The half of the decimal places a factor is split at, so that no partial
\* product leaves the integers of the checker.
Split == 1000

\* math.log(n) for n = 1..12.
LogTable ==
    <<0, 693147, 1098612, 1386294, 1609438, 1791759,
      1945910, 2079442, 2197225, 2302585, 2397895, 2484907>>

Log(n) == LogTable[n]

\* hh + (mid * Split + ll) / Scale, rounded to the nearest.
MulParts(hh, mid, ll) ==
    hh + mid \div Split + ((mid % Split) * Split + ll + Scale \div 2) \div Scale

\* a * b, rounded to the nearest, from the halves of a and b.
Mul(a, b) ==
    MulParts((a \div Split) * (b \div Split),
             (a \div Split) * (b % Split) + (a % Split) * (b \div Split),
             (a % Split) * (b % Split))

\* Long division: q the quotient so far, r the remainder, k decimal places to go;
\* the last place is rounded to the nearest.
RECURSIVE DivDigits(_, _, _, _)
DivDigits(q, r, n, k) ==
    IF k = 0 THEN (IF 2 * r >= n THEN q + 1 ELSE q)
    ELSE DivDigits(10 * q + (10 * r) \div n, (10 * r) % n, n, k - 1)

\* a / n, rounded to the nearest, for n > 0.
Div(a, n) == DivDigits(a \div n, a % n, n, 6)

\* One step of Newton's iteration for the square root of n from x, and the
\* iteration itself, down to the first step that no longer decreases.
NewtonStep(n, x) == (x + Div(n, x)) \div 2

RECURSIVE NewtonFrom(_, _, _)
NewtonFrom(n, x, y) == IF y >= x THEN x ELSE NewtonFrom(n, y, NewtonStep(n, y))

Newton(n, x) == NewtonFrom(n, x, NewtonStep(n, x))

\* math.sqrt(n), to the last decimal place.
Sqrt(n) == IF n = 0 THEN 0 ELSE Newton(n, IF n > Scale THEN n ELSE Scale)

RECURSIVE SumSeq(_)
SumSeq(s) == IF s = <<>> THEN 0 ELSE s[1] + SumSeq(Tail(s))

\* np.linalg.norm(vec)
Norm(vec) == Sqrt(SumSeq([i \in 1..Len(vec) |-> Mul(vec[i], vec[i])]))

\* vec / norm
Divide(vec, norm) == [i \in 1..Len(vec) |-> Div(vec[i], norm)]

\* "if norm > 0: vec /= norm"
DivideIfPositive(vec, norm) == IF norm > 0 THEN Divide(vec, norm) ELSE vec

\* Faulty variant: the vector keeps its length.
NormalizeSkipped(vec) == vec

\* The L2 normalization of a vector.
Normalize(vec) == DivideIfPositive(vec, Norm(vec))

\* np.dot(a, b) of two vectors of one length.
Dot(a, b) == SumSeq([i \in 1..Len(a) |-> Mul(a[i], b[i])])

\* The nearest multiple of den below or above x, a half going to the even one.
HalfEven(q, r, den) ==
    IF 2 * r > den \/ (2 * r = den /\ q % 2 = 1) THEN q + 1 ELSE q

\* round(x, 4): the nearest 1/10000, counted in 1/10000.
Round4(x) == HalfEven(x \div (Scale \div 10000), x % (Scale \div 10000), Scale \div 10000)

\* ------------------------------------------------------------------------
\* The TF-IDF weighting shared by initialize and search
\* ------------------------------------------------------------------------
EmptyDict == <<>>

DictLen(d) == Cardinality(DOMAIN d)

\* idf.get(token, 1)
IdfGet(idf, token) == IF token \in DOMAIN idf THEN idf[token] ELSE Scale

\* (1 + math.log(count)) * self.idf.get(token, 1)
Weight(count, idf, token) == Mul(Scale + Log(count), IdfGet(idf, token))

\* Faulty variant: the vocabulary's index is taken for a 1-based position.
TokensAtShifted(tf, vocab, p) == {t \in DOMAIN tf : t \in DOMAIN vocab /\ vocab[t] = p}

\* The counted tokens the vocabulary puts at position p (1-based): one or none.
TokensAt(tf, vocab, p) == {t \in DOMAIN tf : t \in DOMAIN vocab /\ vocab[t] = p - 1}

Component(tf, idf, at) ==
    IF at = {} THEN 0
    ELSE Weight(tf[CHOOSE t \in at : TRUE], idf, CHOOSE t \in at : TRUE)

\* np.zeros(len(vocab)), then vec[vocab[token]] = weight for every counted token
\* the vocabulary holds.
RawVector(tf, vocab, idf) ==
    [p \in 1..DictLen(vocab) |-> Component(tf, idf, TokensAt(tf, vocab, p))]

\* Faulty variant: a token the vocabulary lacks makes the whole vector zero.
VectorizeKnownOnly(tokens, vocab, idf) ==
    IF \E i \in 1..Len(tokens) : tokens[i] \notin DOMAIN vocab
    THEN [p \in 1..DictLen(vocab) |-> 0]
    ELSE Normalize(RawVector(Counter(tokens), vocab, idf))

\* The vector of a token sequence: term counts, weights, L2 normalization.
Vectorize(tokens, vocab, idf) == Normalize(RawVector(Counter(tokens), vocab, idf))

\* ------------------------------------------------------------------------
\* initialize: the parts of the build
\* ------------------------------------------------------------------------
\* doc_tokens = [_tokenize(doc["content"]) for doc in self.documents]
DocTokens(docs) == [i \in 1..Len(docs) |-> tokenize(docs[i].content)]

TokenSet(tokens) == {tokens[i] : i \in 1..Len(tokens)}

\* all_tokens: the union of every document's tokens.
AllTokens(doc_tokens) == UNION {TokenSet(doc_tokens[i]) : i \in 1..Len(doc_tokens)}

\* Faulty variant: the tokens are numbered in descending order.
SortedIndexReversed(all_tokens) ==
    [t \in all_tokens |-> Cardinality({u \in all_tokens : StrLess(t, u)})]

\* {token: i for i, token in enumerate(sorted(all_tokens))}
SortedIndex(all_tokens) ==
    [t \in all_tokens |-> Cardinality({u \in all_tokens : StrLess(u, t)})]

BuildVocab(doc_tokens) == SortedIndex(AllTokens(doc_tokens))

\* A count that takes every occurrence of the token, and not every document
\* that holds it.
DocFreqPerOccurrence(doc_tokens, t) ==
    Cardinality({p \in UNION {{<<i, n>> : n \in 1..Len(doc_tokens[i])} :
                                  i \in 1..Len(doc_tokens)} :
                    doc_tokens[p[1]][p[2]] = t})

\* doc_freq: the number of documents a token occurs in.
DocFreq(doc_tokens, t) ==
    Cardinality({i \in 1..Len(doc_tokens) : t \in TokenSet(doc_tokens[i])})

\* {token: math.log((n_docs + 1) / (df + 1)) + 1 for token, df in doc_freq.items()}
BuildIdf(doc_tokens) ==
    [t \in AllTokens(doc_tokens) |->
        Log(Len(doc_tokens) + 1) - Log(DocFreq(doc_tokens, t) + 1) + Scale]

\* ------------------------------------------------------------------------
\* The corpus (POLICY_DOCUMENTS) and the arguments of search
\* ------------------------------------------------------------------------
\* '\nKnee MRI: knee, hip; MRI MRI MRI MRI\n'
KneeText ==
    <<"\n","K","n","e","e"," ","M","R","I",":"," ","k","n","e","e",","," ","h","i","p",
      ";"," ","M","R","I"," ","M","R","I"," ","M","R","I"," ","M","R","I","\n">>

\* 'MRI of the hip: hip, knee, MRI MRI MRI'
HipText ==
    <<"M","R","I"," ","o","f"," ","t","h","e"," ","h","i","p",":"," ","h","i","p",",",
      " ","k","n","e","e",","," ","M","R","I"," ","M","R","I"," ","M","R","I">>

\* ' A - I '
BlankText ==
    <<" ","A"," ","-"," ","I"," ">>

\* ''
EmptyQuery ==
    <<>>

\* 'knee knee hip MRI MRI MRI MRI MRI': the tokens of KneeText
KneeQuery ==
    <<"k","n","e","e"," ","k","n","e","e"," ","h","i","p"," ","M","R","I"," ","M","R",
      "I"," ","M","R","I"," ","M","R","I"," ","M","R","I">>

\* 'the hip hip knee knee knee zz'
HipQuery ==
    <<"t","h","e"," ","h","i","p"," ","h","i","p"," ","k","n","e","e"," ","k","n","e",
      "e"," ","k","n","e","e"," ","z","z">>

\* The policy documents a corpus is made of: each an entry of POLICY_DOCUMENTS
\* without its id.
Policies == {
    [payer |-> "Aetna", payer_id |-> "aetna",
     category |-> "knee_replacement", title |-> "Aetna knee policy", content |-> KneeText],
    [payer |-> "United Healthcare", payer_id |-> "united_healthcare",
     category |-> "MRI", title |-> "UHC imaging policy", content |-> HipText],
    [payer |-> "Aetna", payer_id |-> "aetna",
     category |-> "biologics", title |-> "Aetna blank policy", content |-> BlankText] }

\* The document identifier of each corpus position.
DocId(i) == <<"DOC", i>>

Document(i, policy) ==
    [id |-> DocId(i), payer |-> policy.payer, payer_id |-> policy.payer_id,
     category |-> policy.category, title |-> policy.title, content |-> policy.content]

\* Every corpus of at most MaxDocs documents.
Corpora ==
    UNION {{[i \in 1..n |-> Document(i, p[i])] : p \in [1..n -> Policies]} : n \in 0..MaxDocs}

\* Python's None.
None == "None"

Queries == {EmptyQuery, KneeQuery, HipQuery}

TopKs == -1..MaxTopK

\* payer_filter: absent, empty, a payer (of some documents of the corpus, or of none).
Filters == {None, "", "aetna"}

\* ------------------------------------------------------------------------
\* search: the parts of the ranking
\* ------------------------------------------------------------------------
\* Python's truth value of payer_filter: None and "" are false.
Truthy(x) == x # None /\ x # ""

\* "if payer_filter and doc["payer_id"] != payer_filter: continue"
Skipped(doc, payer_filter) == Truthy(payer_filter) /\ doc.payer_id # payer_filter

\* What "float(np.dot(query_vec, self.doc_vectors[i]))" raises at position i.
Raises(query_vec, vectors, i) ==
    IF i > Len(vectors) THEN "IndexError"
    ELSE IF Len(vectors[i]) # Len(query_vec) THEN "ValueError"
    ELSE "none"

\* Faulty variant: the title and the category change places.
ResultSwapped(doc, similarity) ==
    [document_id |-> doc.id, payer |-> doc.payer, category |-> doc.title,
     title |-> doc.category, content |-> strip(doc.content),
     similarity_score |-> Round4(similarity)]

\* The dict appended to results for one document.
Result(doc, similarity) ==
    [document_id |-> doc.id, payer |-> doc.payer, category |-> doc.category,
     title |-> doc.title, content |-> strip(doc.content),
     similarity_score |-> Round4(similarity)]

\* One pass of "for i, doc in enumerate(self.documents)" at position i (1-based):
\* acc is [raised, value], the exception raised so far and the results so far.
Scored(acc, doc, query_vec, vectors, i, raises) ==
    IF raises # "none" THEN [raised |-> raises, value |-> <<>>]
    ELSE [acc EXCEPT !.value = Append(@, Result(doc, Dot(query_vec, vectors[i])))]

LoopBody(acc, docs, vectors, query_vec, payer_filter, i) ==
    IF Skipped(docs[i], payer_filter) THEN acc
    ELSE Scored(acc, docs[i], query_vec, vectors, i, Raises(query_vec, vectors, i))

RECURSIVE Loop(_, _, _, _, _, _)
Loop(acc, docs, vectors, query_vec, payer_filter, i) ==
    IF i > Len(docs) \/ acc.raised # "none" THEN acc
    ELSE Loop(LoopBody(acc, docs, vectors, query_vec, payer_filter, i),
              docs, vectors, query_vec, payer_filter, i + 1)

\* r put behind the first n entries of sorted.
InsertAt(sorted, r, n) ==
    SubSeq(sorted, 1, n) \o <<r>> \o SubSeq(sorted, n + 1, Len(sorted))

\* Faulty variant: r goes ahead of the entries of its own score (the sort is not stable).
InsertBeforeTies(sorted, r) ==
    InsertAt(sorted, r, Cardinality({j \in 1..Len(sorted) :
                 sorted[j].similarity_score > r.similarity_score}))

\* Where list.sort(key=similarity_score, reverse=True) puts r in an already sorted
\* list: behind every entry whose score is >= r's (the sort is stable).
Insert(sorted, r) ==
    InsertAt(sorted, r, Cardinality({j \in 1..Len(sorted) :
                 sorted[j].similarity_score >= r.similarity_score}))

\* Faulty variant: the results stay in corpus order.
Unsorted(results) == results

\* results.sort(key=lambda x: x["similarity_score"], reverse=True)
RECURSIVE SortDesc(_)
SortDesc(results) ==
    IF results = <<>> THEN <<>>
    ELSE Insert(SortDesc(SubSeq(results, 1, Len(results) - 1)), results[Len(results)])

\* Faulty variant: one result more than asked for.
SliceStopOffByOne(n, top_k) ==
    IF top_k >= 0 THEN (IF top_k + 1 < n THEN top_k + 1 ELSE n)
    ELSE (IF n + top_k > 0 THEN n + top_k ELSE 0)

\* Where results[:top_k] ends in a list of n entries: a negative top_k counts
\* from the end of the list.
SliceStop(n, top_k) ==
    IF top_k >= 0 THEN (IF top_k < n THEN top_k ELSE n)
    ELSE (IF n + top_k > 0 THEN n + top_k ELSE 0)

\* results[:top_k]
Slice(results, top_k) == SubSeq(results, 1, SliceStop(Len(results), top_k))

\* "results.sort(...); return results[:top_k]"
SortAndSlice(results, top_k) == Slice(SortDesc(results), top_k)

\* ------------------------------------------------------------------------
\* RAGEngine
\* ------------------------------------------------------------------------
VARIABLES
    documents,     \* self.documents
    vocab,         \* self.vocab: token -> index
    idf,           \* self.idf: token -> weight
    doc_vectors,   \* self.doc_vectors
    initialized,   \* self._initialized
    last,          \* the last call made by one caller at a time: its arguments, the
                   \* engine before it, what it returned or raised
    pc,            \* each thread's position in initialize or search; "raised" when
                   \* its last call ended in an exception
    frame,         \* each thread's local variables
    text,          \* _tokenize: the argument of a call
    tokens,        \* _tokenize: what the call returned
    run,           \* run_agent: the local variables of a call
    cases_db,      \* cases_db: case id -> case
    review_queue,  \* review_queue
    response       \* the last endpoint called and what its caller received

\* The variables of the tokenizer taken alone, and of the service around the engine.
tokenizer == <<text, tokens>>

service == <<run, cases_db, review_queue, response>>

vars == <<documents, vocab, idf, doc_vectors, initialized, last, pc, frame,
          tokenizer, service>>

Threads == 1..NumThreads

\* RAGEngine.__init__ over a corpus.
NewEngine(docs) ==
    [documents |-> docs, vocab |-> EmptyDict, idf |-> EmptyDict,
     doc_vectors |-> <<>>, initialized |-> FALSE]

\* The engine of the current state.
Self ==
    [documents |-> documents, vocab |-> vocab, idf |-> idf,
     doc_vectors |-> doc_vectors, initialized |-> initialized]

NoResult == [raised |-> "none", value |-> <<>>]

\* self.doc_vectors after the loop over doc_tokens.
BuildDocVectors(doc_tokens, v, w) ==
    [i \in 1..Len(doc_tokens) |-> Vectorize(doc_tokens[i], v, w)]

Indexed(self, doc_tokens, v, w) ==
    [self EXCEPT !.vocab = v, !.idf = w,
                 !.doc_vectors = BuildDocVectors(doc_tokens, v, w),
                 !.initialized = TRUE]

BuildFrom(self, doc_tokens) ==
    Indexed(self, doc_tokens, BuildVocab(doc_tokens), BuildIdf(doc_tokens))

\* The build body of initialize: everything behind "if self._initialized: return".
Build(self) == BuildFrom(self, DocTokens(self.documents))

\* Faulty variant: the index is reset ahead of the guard, so a second call empties it.
initializeResetFirst(self) ==
    IF self.initialized THEN [self EXCEPT !.doc_vectors = <<>>] ELSE Build(self)

\* Faulty variant: no guard and no "self.doc_vectors = []": every call appends the
\* vectors again.
initializeAgain(self) == [Build(self) EXCEPT !.doc_vectors = self.doc_vectors \o @]

\* RAGEngine.initialize: the engine it leaves.
initialize(self) == IF self.initialized THEN self ELSE Build(self)

\* Faulty variant: search without its lazy initialization.
LazyInitSkipped(self) == self

\* "if not self._initialized: self.initialize()" at the head of search.
LazyInit(self) == IF ~self.initialized THEN initialize(self) ELSE self

\* What search returns or raises once the loop over the documents has ended.
Finish(acc, top_k) ==
    IF acc.raised # "none" THEN acc ELSE [acc EXCEPT !.value = SortAndSlice(@, top_k)]

\* search behind the vectorization of the query.
Rank(eng, query_vec, top_k, payer_filter) ==
    Finish(Loop(NoResult, eng.documents, eng.doc_vectors, query_vec, payer_filter, 1), top_k)

\* Faulty variant: the tokens of the query are added to the vocabulary.
SearchBuiltGrowing(eng, query, top_k, payer_filter) ==
    [self |-> [eng EXCEPT !.vocab =
                  [t \in DOMAIN eng.vocab \cup TokenSet(tokenize(query)) |->
                      IF t \in DOMAIN eng.vocab THEN eng.vocab[t] ELSE DictLen(eng.vocab)]],
     result |-> Rank(eng, Vectorize(tokenize(query), eng.vocab, eng.idf), top_k, payer_filter)]

\* Faulty variant: the ranking reorders the shared list of document vectors and
\* leaves it reversed.
SearchBuiltReordering(eng, query, top_k, payer_filter) ==
    [self |-> [eng EXCEPT !.doc_vectors =
                  [i \in 1..Len(eng.doc_vectors) |->
                      eng.doc_vectors[Len(eng.doc_vectors) + 1 - i]]],
     result |-> Rank(eng, Vectorize(tokenize(query), eng.vocab, eng.idf), top_k, payer_filter)]

\* search behind its lazy initialization.
SearchBuilt(eng, query, top_k, payer_filter) ==
    [self |-> eng,
     result |-> Rank(eng, Vectorize(tokenize(query), eng.vocab, eng.idf), top_k, payer_filter)]

\* RAGEngine.search: the engine it leaves and what it returns or raises.
search(self, query, top_k, payer_filter) ==
    SearchBuilt(LazyInit(self), query, top_k, payer_filter)

NoCall(docs) ==
    [op |-> "none", query |-> <<>>, top_k |-> 0, payer_filter |-> None,
     before |-> NewEngine(docs), result |-> NoResult]

IdleFrame ==
    [op |-> "none", query |-> <<>>, top_k |-> 0, payer_filter |-> None,
     doc_tokens |-> <<>>, d |-> 0, query_vec |-> <<>>, results |-> <<>>]

\* No call of _tokenize or run_agent made, no case submitted, no endpoint called.
NoTokens == <<"none">>

NoRun == [state |-> "none"]

NoResponse == [op |-> "none"]

AtRest ==
    /\ text = <<>>
    /\ tokens = NoTokens
    /\ run = NoRun
    /\ cases_db = EmptyDict
    /\ review_queue = <<>>
    /\ response = NoResponse

Init ==
    /\ AtRest
    /\ documents \in Corpora
    /\ vocab = EmptyDict
    /\ idf = EmptyDict
    /\ doc_vectors = <<>>
    /\ initialized = FALSE
    /\ last = NoCall(documents)
    /\ pc = [t \in Threads |-> "idle"]
    /\ frame = [t \in Threads |-> IdleFrame]

\* The engine's fields take the values of the record eng.
Becomes(eng) ==
    /\ documents' = eng.documents
    /\ vocab' = eng.vocab
    /\ idf' = eng.idf
    /\ doc_vectors' = eng.doc_vectors
    /\ initialized' = eng.initialized

\* ------------------------------------------------------------------------
\* One caller at a time: the handlers of src/main.py are coroutines without an
\* await between entering and leaving the engine, so each call runs whole.
\* ------------------------------------------------------------------------
\* startup_event: rag_engine.initialize()
Initialize ==
    /\ \E eng \in {initialize(Self)} : Becomes(eng)
    /\ last' = [op |-> "initialize", query |-> <<>>, top_k |-> 0, payer_filter |-> None,
                before |-> Self, result |-> NoResult]
    /\ UNCHANGED <<pc, frame, tokenizer, service>>

\* rag_search and execute_lookup_payer_policy: rag_engine.search(query, top_k, payer_filter)
Search(query, top_k, payer_filter) ==
    \E r \in {search(Self, query, top_k, payer_filter)} :
        /\ Becomes(r.self)
        /\ last' = [op |-> "search", query |-> query, top_k |-> top_k,
                    payer_filter |-> payer_filter, before |-> Self, result |-> r.result]
        /\ UNCHANGED <<pc, frame, tokenizer, service>>

Next ==
    \/ Initialize
    \/ \E query \in Queries, top_k \in TopKs, payer_filter \in Filters :
          Search(query, top_k, payer_filter)

Spec == Init /\ [][Next]_vars

\* ------------------------------------------------------------------------
\* Several callers at once: threads over the one engine, interleaved between
\* the statements of initialize and search.  Nothing in RAGEngine takes a lock.
\* ------------------------------------------------------------------------
\* The arguments the threads call search with.
ThreadQueries == {KneeQuery}

ThreadFilters == {None, "aetna"}

\* The positions inside the build body of initialize.
BuildBody == {"i_vocab", "i_idf", "i_clear", "i_append", "i_flag"}

\* The positions of search behind "if not self._initialized: self.initialize()".
PastCheck == {"s_vec", "s_loop", "s_sort"}

\* Where initialize returns to: into search, or to the caller of initialize.
AfterInitialize(f) == IF f.op = "search" THEN "s_vec" ELSE "idle"

\* The positions of a thread that is in no call.
Outside == {"idle", "raised"}

\* The locals of a thread that leaves initialize: gone with the call, or those
\* of the search that called it without the locals of initialize.
Leaving(f) ==
    IF f.op = "search" THEN [f EXCEPT !.doc_tokens = <<>>, !.d = 0] ELSE IdleFrame

\* A thread calls initialize().
CallInitialize(t) ==
    /\ pc[t] \in Outside
    /\ pc' = [pc EXCEPT ![t] = "i_check"]
    /\ frame' = [frame EXCEPT ![t] = [IdleFrame EXCEPT !.op = "initialize"]]
    /\ UNCHANGED <<documents, vocab, idf, doc_vectors, initialized, last, tokenizer, service>>

\* A thread calls search(query, top_k, payer_filter).
CallSearch(t, query, top_k, payer_filter) ==
    /\ pc[t] \in Outside
    /\ pc' = [pc EXCEPT ![t] = "s_check"]
    /\ frame' = [frame EXCEPT ![t] = [IdleFrame EXCEPT
                     !.op = "search", !.query = query, !.top_k = top_k,
                     !.payer_filter = payer_filter]]
    /\ UNCHANGED <<documents, vocab, idf, doc_vectors, initialized, last, tokenizer, service>>

\* search: "if not self._initialized: self.initialize()"
SearchCheck(t) ==
    /\ pc[t] = "s_check"
    /\ pc' = [pc EXCEPT ![t] = IF ~initialized THEN "i_check" ELSE "s_vec"]
    /\ UNCHANGED <<documents, vocab, idf, doc_vectors, initialized, last, frame, tokenizer, service>>

\* initialize: "if self._initialized: return", else doc_tokens = [...]
InitCheck(t) ==
    /\ pc[t] = "i_check"
    /\ IF initialized
       THEN /\ pc' = [pc EXCEPT ![t] = AfterInitialize(frame[t])]
            /\ frame' = [frame EXCEPT ![t] = Leaving(frame[t])]
       ELSE /\ pc' = [pc EXCEPT ![t] = "i_vocab"]
            /\ frame' = [frame EXCEPT ![t].doc_tokens = DocTokens(documents)]
    /\ UNCHANGED <<documents, vocab, idf, doc_vectors, initialized, last, tokenizer, service>>

\* initialize: self.vocab = {token: i for i, token in enumerate(sorted(all_tokens))}
InitVocab(t) ==
    /\ pc[t] = "i_vocab"
    /\ vocab' = BuildVocab(frame[t].doc_tokens)
    /\ pc' = [pc EXCEPT ![t] = "i_idf"]
    /\ UNCHANGED <<documents, idf, doc_vectors, initialized, last, frame, tokenizer, service>>

\* initialize: self.idf = {...}
InitIdf(t) ==
    /\ pc[t] = "i_idf"
    /\ idf' = BuildIdf(frame[t].doc_tokens)
    /\ pc' = [pc EXCEPT ![t] = "i_clear"]
    /\ UNCHANGED <<documents, vocab, doc_vectors, initialized, last, frame, tokenizer, service>>

\* initialize: self.doc_vectors = []
InitClear(t) ==
    /\ pc[t] = "i_clear"
    /\ doc_vectors' = <<>>
    /\ pc' = [pc EXCEPT ![t] = "i_append"]
    /\ frame' = [frame EXCEPT ![t].d = 1]
    /\ UNCHANGED <<documents, vocab, idf, initialized, last, tokenizer, service>>

\* initialize: one pass of "for tokens in doc_tokens", ending in
\* self.doc_vectors.append(vec); behind the last pass, the loop ends.
InitAppend(t) ==
    /\ pc[t] = "i_append"
    /\ IF frame[t].d <= Len(frame[t].doc_tokens)
       THEN /\ doc_vectors' = Append(doc_vectors,
                                  Vectorize(frame[t].doc_tokens[frame[t].d], vocab, idf))
            /\ frame' = [frame EXCEPT ![t].d = @ + 1]
            /\ UNCHANGED pc
       ELSE /\ pc' = [pc EXCEPT ![t] = "i_flag"]
            /\ UNCHANGED <<doc_vectors, frame>>
    /\ UNCHANGED <<documents, vocab, idf, initialized, last, tokenizer, service>>

\* initialize: self._initialized = True, and the return.
InitFlag(t) ==
    /\ pc[t] = "i_flag"
    /\ initialized' = TRUE
    /\ pc' = [pc EXCEPT ![t] = AfterInitialize(frame[t])]
    /\ frame' = [frame EXCEPT ![t] = Leaving(frame[t])]
    /\ UNCHANGED <<documents, vocab, idf, doc_vectors, last, tokenizer, service>>

\* search: the query vector, from self.vocab and self.idf as they are now.
SearchVectorize(t) ==
    /\ pc[t] = "s_vec"
    /\ frame' = [frame EXCEPT
                    ![t].query_vec = Vectorize(tokenize(frame[t].query), vocab, idf),
                    ![t].d = 1]
    /\ pc' = [pc EXCEPT ![t] = "s_loop"]
    /\ UNCHANGED <<documents, vocab, idf, doc_vectors, initialized, last, tokenizer, service>>

\* search: one pass of "for i, doc in enumerate(self.documents)", reading
\* self.doc_vectors[i] as it is now; an exception ends the call.
SearchLoop(t) ==
    /\ pc[t] = "s_loop"
    /\ IF frame[t].d > Len(documents)
       THEN /\ pc' = [pc EXCEPT ![t] = "s_sort"]
            /\ UNCHANGED frame
       ELSE \E acc \in {LoopBody([raised |-> "none", value |-> frame[t].results],
                                 documents, doc_vectors, frame[t].query_vec,
                                 frame[t].payer_filter, frame[t].d)} :
               IF acc.raised # "none"
               THEN /\ pc' = [pc EXCEPT ![t] = "raised"]
                    /\ frame' = [frame EXCEPT ![t] = IdleFrame]
               ELSE /\ frame' = [frame EXCEPT ![t].results = acc.value, ![t].d = @ + 1]
                    /\ UNCHANGED pc
    /\ UNCHANGED <<documents, vocab, idf, doc_vectors, initialized, last, tokenizer, service>>

\* search: results.sort(...); return results[:top_k]
SearchReturn(t) ==
    /\ pc[t] = "s_sort"
    /\ pc' = [pc EXCEPT ![t] = "idle"]
    /\ frame' = [frame EXCEPT ![t] = IdleFrame]
    /\ UNCHANGED <<documents, vocab, idf, doc_vectors, initialized, last, tokenizer, service>>

NextThreads ==
    \E t \in Threads :
        \/ CallInitialize(t)
        \/ \E query \in ThreadQueries, payer_filter \in ThreadFilters :
              CallSearch(t, query, MaxTopK, payer_filter)
        \/ SearchCheck(t)
        \/ InitCheck(t)
        \/ InitVocab(t)
        \/ InitIdf(t)
        \/ InitClear(t)
        \/ InitAppend(t)
        \/ InitFlag(t)
        \/ SearchVectorize(t)
        \/ SearchLoop(t)
        \/ SearchReturn(t)

SpecThreads == Init /\ [][NextThreads]_vars

\* ------------------------------------------------------------------------
\* Properties
\* ------------------------------------------------------------------------
\* The corpus position (1-based) of the document a result was made from.
DocIndex(r) == CHOOSE i \in 1..Len(documents) : documents[i].id = r.document_id

DocOf(r) == documents[DocIndex(r)]

\* The documents the loop of search does not skip under a filter.
Matching(payer_filter) == {i \in 1..Len(documents) : ~Skipped(documents[i], payer_filter)}

Min(a, b) == IF a < b THEN a ELSE b

Returned == last.result.value

\* C1: a search on an engine that was never built builds the index first: when
\* a search returns the built flag is true, and it returns what the same call
\* returns on the same engine after an explicit initialize().
C1_SearchBuildsFirst ==
    last.op = "search" =>
        /\ initialized
        /\ ~last.before.initialized =>
              last.result = search(initialize(last.before), last.query, last.top_k,
                                   last.payer_filter).result

\* A search on a never-built engine has returned results.
C1_Witness ==
    /\ last.op = "search"
    /\ ~last.before.initialized
    /\ last.result.raised = "none"
    /\ Len(Returned) >= 1

\* C2: initialize() after a successful build raises nothing and leaves the
\* vocabulary, the IDF table, the document vectors and the flag as they were.
C2_InitializeIdempotent ==
    (last.op = "initialize" /\ last.before.initialized) =>
        /\ last.result.raised = "none"
        /\ Self = last.before

\* initialize() was called on a built engine that holds vectors.
C2_Witness ==
    /\ last.op = "initialize"
    /\ last.before.initialized
    /\ last.before.doc_vectors # <<>>

\* C3: a search on a built engine leaves the vocabulary, the IDF table, the
\* document vectors, the flag and the documents as they were.
C3_SearchReadOnly ==
    (last.op = "search" /\ last.before.initialized) => Self = last.before

\* A search of a built engine, with a query token the vocabulary lacks, returned.
C3_Witness ==
    /\ last.op = "search"
    /\ last.before.initialized
    /\ last.query = HipQuery
    /\ Len(Returned) >= 1

\* C4: of several concurrent callers of initialize() and search() on an unbuilt
\* engine, at most one is inside the build body at any time.
C4_AtMostOneBuilder == Cardinality({t \in Threads : pc[t] \in BuildBody}) <= 1

\* C5: while a search is past its check of the built flag there is one vector
\* per document, each of the vocabulary's length, and vocabulary, IDF table and
\* vectors are those of one completed build.
C5_NoPartialIndex ==
    (\E t \in Threads : pc[t] \in PastCheck) =>
        /\ Len(doc_vectors) = Len(documents)
        /\ \A i \in 1..Len(doc_vectors) : Len(doc_vectors[i]) = DictLen(vocab)
        /\ Self = Build(NewEngine(documents))

\* C6: the built flag, once true, stays true, and the vocabulary, the IDF table
\* and the document vectors never change after the first build.
C6_LifecycleOneWay ==
    [][initialized =>
          /\ initialized'
          /\ vocab' = vocab
          /\ idf' = idf
          /\ doc_vectors' = doc_vectors]_vars

\* Two calls have been made, the later one on a built engine with a vocabulary.
C6_Witness ==
    /\ initialized
    /\ last.op # "none"
    /\ last.before.initialized
    /\ DictLen(vocab) >= 1

\* C7: what search returns is sorted by descending similarity_score.
C7_SortedDescending ==
    last.op = "search" =>
        \A i \in 1..(Len(Returned) - 1) :
            Returned[i].similarity_score >= Returned[i + 1].similarity_score

\* A search returned a later document ahead of an earlier one of lower score.
C7_Witness ==
    /\ last.op = "search"
    /\ Len(Returned) >= 2
    /\ Returned[1].similarity_score > Returned[2].similarity_score
    /\ DocIndex(Returned[1]) > DocIndex(Returned[2])

\* C8: returned results of equal similarity_score are in corpus order.
C8_TiesInCorpusOrder ==
    last.op = "search" =>
        \A i, j \in 1..Len(Returned) :
            (i < j /\ Returned[i].similarity_score = Returned[j].similarity_score)
                => DocIndex(Returned[i]) < DocIndex(Returned[j])

\* A search returned two results of one score above zero.
C8_Witness ==
    /\ last.op = "search"
    /\ Len(Returned) >= 2
    /\ Returned[1].similarity_score = Returned[2].similarity_score
    /\ Returned[1].similarity_score > 0

\* C9: under any filter string, every returned result is of a document whose
\* payer_id equals the filter.
C9_FilterRespected ==
    (last.op = "search" /\ last.payer_filter # None) =>
        \A i \in 1..Len(Returned) : DocOf(Returned[i]).payer_id = last.payer_filter

Equal(payer_filter) ==
    {i \in 1..Len(documents) : payer_filter = None \/ documents[i].payer_id = payer_filter}

\* The indexes of a set in increasing order.
RECURSIVE Ascending(_)
Ascending(set) ==
    IF set = {} THEN <<>>
    ELSE Ascending(set \ {CHOOSE i \in set : \A j \in set : j <= i})
            \o <<CHOOSE i \in set : \A j \in set : j <= i>>

\* The first n entries of a sequence: none when n <= 0.
First(seq, n) == SubSeq(seq, 1, IF n < 0 THEN 0 ELSE Min(n, Len(seq)))

\* The positions in the corpus of the returned results, in the order returned.
ReturnedIndexes == [i \in 1..Len(Returned) |-> DocIndex(Returned[i])]

\* The tokens of the last query that the vocabulary holds.
Recognized == {t \in TokenSet(tokenize(last.query)) : t \in DOMAIN vocab}

\* The similarity of document i to the query vector, before round(similarity, 4).
Similarity(query_vec, i) == Dot(query_vec, doc_vectors[i])

\* The vector of the last query over the index of the current state.
QueryVec == Vectorize(tokenize(last.query), vocab, idf)

\* C11: a search with top_k <= 0 returns the empty sequence, whatever the query
\* and the filter.
C11_NonPositiveTopKEmpty ==
    (last.op = "search" /\ last.top_k <= 0) => Returned = <<>>

\* C12: on a corpus of no documents initialize() succeeds with an empty
\* vocabulary, and a search that no document matches (the corpus is empty, or the
\* filter equals no document's payer_id) raises nothing and returns the empty
\* sequence.
C12_NoMatchEmpty ==
    /\ (last.op = "initialize" /\ documents = <<>>) =>
          /\ last.result.raised = "none"
          /\ initialized
          /\ vocab = EmptyDict
    /\ (last.op = "search" /\ Equal(last.payer_filter) = {}) =>
          /\ last.result.raised = "none"
          /\ Returned = <<>>

\* C13: a search whose query has no token of the vocabulary raises nothing, scores
\* every document it does not filter out 0.0 and returns the first
\* min(top_k, matching count) documents matching the filter, in corpus order.
C13_ZeroQuery ==
    (last.op = "search" /\ Recognized = {}) =>
        /\ last.result.raised = "none"
        /\ \A i \in Equal(last.payer_filter) : Similarity(QueryVec, i) = 0
        /\ \A i \in 1..Len(Returned) : Returned[i].similarity_score = 0
        /\ ReturnedIndexes = First(Ascending(Equal(last.payer_filter)), last.top_k)

\* C14: search is deterministic: whatever calls of initialize() and search() came
\* before it, a search returns what the same call returns on a new engine over
\* the same corpus, so two calls of equal query, corpus, filter and top_k return
\* the same documents with the same scores in the same order.
C14_Deterministic ==
    last.op = "search" =>
        last.result = search(NewEngine(documents), last.query, last.top_k,
                             last.payer_filter).result

\* A search on an engine that earlier calls had built returned two documents of
\* different scores.
C14_Witness ==
    /\ last.op = "search"
    /\ last.before.initialized
    /\ Len(Returned) = 2
    /\ Returned[1].similarity_score # Returned[2].similarity_score

\* Tokens that occur in no document: ' zz' and ' zz qq9 zz'.
UnknownTokens ==
    { <<" ","z","z">>,
      <<" ","z","z"," ","q","q","9"," ","z","z">> }

\* C15: tokens of the query that the vocabulary lacks are ignored: the query
\* with any number of them appended returns the same documents, in the same
\* order, with the same scores.
C15_UnknownTokensIgnored ==
    last.op = "search" =>
        \A extra \in UnknownTokens :
            search(last.before, last.query \o extra, last.top_k,
                   last.payer_filter).result = last.result

\* A search whose query holds only tokens of the vocabulary returned a document
\* of a score above zero.
C15_Witness ==
    /\ last.op = "search"
    /\ last.query = KneeQuery
    /\ Len(Returned) >= 1
    /\ Returned[1].similarity_score > 0
    /\ \A extra \in UnknownTokens :
          TokenSet(tokenize(extra)) \cap DOMAIN vocab = {}

\* The fields a result takes from the document d it was scored from, other than
\* the content, and the score of d under the query vector.
Carries(r, d, query_vec) ==
    /\ r.document_id = d.id
    /\ r.payer = d.payer
    /\ r.category = d.category
    /\ r.title = d.title
    /\ r.similarity_score = Round4(Similarity(query_vec, DocIndex(r)))

\* s is full without the whitespace at its two ends.
Stripped(s, full) ==
    /\ s = <<>> \/ (s[1] \notin Whitespace /\ s[Len(s)] \notin Whitespace)
    /\ \E i \in 0..Len(full) :
          /\ SubSeq(full, i + 1, i + Len(s)) = s
          /\ i + Len(s) <= Len(full)
          /\ \A j \in (1..i) \cup ((i + Len(s) + 1)..Len(full)) : full[j] \in Whitespace

\* C16, as claimed: every result carries the identifier, the organization, the
\* category, the title and the full content of the document it was scored from,
\* unchanged, and that document's similarity rounded to 4 decimal places.
C16_CarriesFullContent ==
    last.op = "search" =>
        \A i \in 1..Len(Returned) :
            /\ Carries(Returned[i], DocOf(Returned[i]), QueryVec)
            /\ Returned[i].content = DocOf(Returned[i]).content

\* C16, amended: every result carries the identifier, the organization name, the
\* category and the title of the document it was scored from, unchanged, the
\* content of that document without its leading and trailing whitespace, and
\* that document's similarity rounded to 4 decimal places.
C16_CarriesStrippedContent ==
    last.op = "search" =>
        \A i \in 1..Len(Returned) :
            /\ Carries(Returned[i], DocOf(Returned[i]), QueryVec)
            /\ Stripped(Returned[i].content, DocOf(Returned[i]).content)

\* A search returned, with a score above zero, a document whose content begins
\* and ends with whitespace.
C16_Witness ==
    /\ last.op = "search"
    /\ Len(Returned) >= 1
    /\ Returned[1].similarity_score > 0
    /\ DocOf(Returned[1]).content[1] \in Whitespace
    /\ Returned[1].content # DocOf(Returned[1]).content

\* C17, as claimed: the similarity search computes for a query and a document,
\* before it is rounded, lies in [0, 1].
C17_SimilarityInUnitInterval ==
    (last.op = "search" /\ last.result.raised = "none") =>
        \A i \in Matching(last.payer_filter) :
            /\ 0 <= Similarity(QueryVec, i)
            /\ Similarity(QueryVec, i) <= Scale

\* C17, amended: the similarity is never negative, and rounded to 4 decimal
\* places, as similarity_score returns it, it lies in [0, 1].
C17_ScoreInUnitInterval ==
    (last.op = "search" /\ last.result.raised = "none") =>
        /\ \A i \in Matching(last.payer_filter) :
              /\ 0 <= Similarity(QueryVec, i)
              /\ Round4(Similarity(QueryVec, i)) \in 0..10000
        /\ \A i \in 1..Len(Returned) : Returned[i].similarity_score \in 0..10000

\* A search returned a document of score 1.0 whose similarity, before it was
\* rounded, was above 1, and a document of a score below 1.0.
C17_Witness ==
    /\ last.op = "search"
    /\ Len(Returned) = 2
    /\ Returned[1].similarity_score = 10000
    /\ Similarity(QueryVec, DocIndex(Returned[1])) > Scale
    /\ Returned[2].similarity_score < 10000

\* The returned documents are the highest-scoring ones under query_vec, by the
\* similarity before rounding, and are in descending order of it.
Highest(query_vec, returned) ==
    /\ \A o \in Equal(last.payer_filter) : \A j \in 1..Len(returned) :
          (\A k \in 1..Len(returned) : returned[k] # o)
              => Similarity(query_vec, o) <= Similarity(query_vec, returned[j])
    /\ \A i, j \in 1..Len(returned) :
          i < j => Similarity(query_vec, returned[i]) >= Similarity(query_vec, returned[j])

\* C18: a search with top_k >= 1 returns the top_k highest-scoring candidates: no
\* document that matches the filter and is left out has a strictly greater
\* similarity, before rounding, than a returned one, and no returned document
\* stands ahead of a returned one of strictly greater similarity.
C18_TopKHighest ==
    (last.op = "search" /\ last.top_k >= 1 /\ last.result.raised = "none") =>
        Highest(QueryVec, ReturnedIndexes)

\* The tokens of document d, and the vocabulary tokens of index p.
TokensOf(d) == TokenSet(tokenize(documents[d].content))

IndexedAt(p) == {t \in DOMAIN vocab : vocab[t] = p}

\* C19: after initialize() the IDF table has the vocabulary's tokens as its keys,
\* there is one vector per document, each of the vocabulary's length, and position
\* p of a document's vector is non-zero exactly when the vocabulary token of index
\* p occurs in the document's tokens.
C19_IndexConsistent ==
    initialized =>
        /\ DOMAIN idf = DOMAIN vocab
        /\ Len(doc_vectors) = Len(documents)
        /\ \A d \in 1..Len(doc_vectors) :
              /\ Len(doc_vectors[d]) = DictLen(vocab)
              /\ \A p \in 0..(Len(doc_vectors[d]) - 1) :
                    doc_vectors[d][p + 1] # 0 <=> IndexedAt(p) \cap TokensOf(d) # {}

\* An index was built over a document that holds every token of the vocabulary
\* and a document that holds none.
C19_Witness ==
    /\ initialized
    /\ DictLen(vocab) >= 2
    /\ \E d \in 1..Len(documents) : \A p \in 1..DictLen(vocab) : doc_vectors[d][p] # 0
    /\ \E d \in 1..Len(documents) : \A p \in 1..DictLen(vocab) : doc_vectors[d][p] = 0

\* text[i..j] is a maximal run of letters and digits of text.
IsRun(s, i, j) ==
    /\ i <= j
    /\ \A n \in i..j : IsAlnum(s[n])
    /\ (i = 1 \/ ~IsAlnum(s[i - 1]))
    /\ (j = Len(s) \/ ~IsAlnum(s[j + 1]))

\* The maximal runs of letters and digits of a text.
Runs(s) ==
    {SubSeq(s, q[1], q[2]) :
        q \in {r \in (1..Len(s)) \X (1..Len(s)) : IsRun(s, r[1], r[2])}}

\* The distinct tokens of the corpus: the runs of letters and digits of each
\* lowercased content that are no stopword and longer than one character.
CorpusTokens ==
    UNION {{r \in Runs(lower(documents[d].content)) : r \notin stopwords /\ Len(r) > 1} :
             d \in 1..Len(documents)}

\* C20: after initialize() the vocabulary maps the distinct tokens of the corpus
\* one-to-one onto 0..N-1, in sorted order: s sorts before t exactly when the
\* index of s is below the index of t.
C20_VocabSortedBijection ==
    initialized =>
        /\ DOMAIN vocab = CorpusTokens
        /\ {vocab[t] : t \in DOMAIN vocab} = 0..(DictLen(vocab) - 1)
        /\ \A s, t \in DOMAIN vocab : StrLess(s, t) <=> vocab[s] < vocab[t]

\* A vocabulary of three tokens was built from a corpus with upper-case
\* letters, a stopword and single characters in it.
C20_Witness ==
    /\ initialized
    /\ DictLen(vocab) = 3
    /\ \E d \in 1..Len(documents) : documents[d].content = HipText
    /\ \E d \in 1..Len(documents) : documents[d].content = BlankText

\* The number of documents whose tokens hold t, each document counted once.
DocumentsWith(t) == Cardinality({d \in 1..Len(documents) : t \in TokensOf(d)})

\* C21: the document frequency of every vocabulary token counts each document
\* once however often the token is repeated in it, so 1 <= df <= D, and the
\* token's IDF weight log((D + 1) / (df + 1)) + 1 is strictly positive, also for
\* a token that is in every document.
C21_IdfPositive ==
    initialized =>
        \A t \in DOMAIN vocab :
            /\ DocumentsWith(t) >= 1
            /\ DocumentsWith(t) <= Len(documents)
            /\ idf[t] = Log(Len(documents) + 1) - Log(DocumentsWith(t) + 1) + Scale
            /\ idf[t] > 0

\* An index was built over two documents that both repeat one token, which
\* so has the weight 1.
C21_Witness ==
    /\ initialized
    /\ Len(documents) = 2
    /\ documents[1].content = KneeText
    /\ documents[2].content = HipText
    /\ \E t \in DOMAIN vocab : DocumentsWith(t) = 2 /\ idf[t] = Scale

\* ------------------------------------------------------------------------
\* _tokenize taken alone: one call on each text of a bounded set
\* ------------------------------------------------------------------------
\* The characters the texts are made of: an upper-case letter, two lower-case
\* letters, a digit and two separators.
Chars == {"T", "o", "a", "1", " ", "-"}

\* Every text of at most MaxLen characters.
Texts == UNION {[1..n -> Chars] : n \in 0..MaxLen}

InitTokenize ==
    /\ text \in Texts
    /\ tokens = NoTokens
    /\ documents = <<>>
    /\ vocab = EmptyDict
    /\ idf = EmptyDict
    /\ doc_vectors = <<>>
    /\ initialized = FALSE
    /\ last = NoCall(documents)
    /\ pc = [t \in Threads |-> "idle"]
    /\ frame = [t \in Threads |-> IdleFrame]
    /\ run = NoRun
    /\ cases_db = EmptyDict
    /\ review_queue = <<>>
    /\ response = NoResponse

\* _tokenize(text)
Tokenize ==
    /\ tokens' = tokenize(text)
    /\ UNCHANGED <<documents, vocab, idf, doc_vectors, initialized, last, pc, frame,
                   text, service>>

NextTokenize == Tokenize

SpecTokenize == InitTokenize /\ [][NextTokenize]_vars

\* The positions of s at which a maximal run of letters and digits starts, the
\* run that starts there, and the starts of the runs that are no stopword and
\* longer than one character.
RunStarts(s) == {i \in 1..Len(s) : IsAlnum(s[i]) /\ (i = 1 \/ ~IsAlnum(s[i - 1]))}

RunFrom(s, i) == SubSeq(s, i, CHOOSE j \in i..Len(s) : IsRun(s, i, j))

KeptStarts(s) ==
    {i \in RunStarts(s) : RunFrom(s, i) \notin stopwords /\ Len(RunFrom(s, i)) > 1}

\* The k-th smallest member of a set of numbers.
Kth(set, k) == CHOOSE i \in set : Cardinality({j \in set : j < i}) = k - 1

NoDict == [None |-> TRUE]

\* args.get(key, default) on the dict of a tool call's arguments.
Get(args, key, default) == IF key \in DOMAIN args THEN args[key] ELSE default

\* A JSON number among the arguments, and a JSON value that is no number.
Number(n) == [number |-> n]

NotANumber == [string |-> "high"]

\* str.replace(old, new) for old and new of one character.
replace(s, old, new) == [i \in 1..Len(s) |-> IF s[i] = old THEN new ELSE s[i]]

\* 'aetna'
aetna ==
    <<"a","e","t","n","a">>

\* 'united_healthcare'
united_healthcare ==
    <<"u","n","i","t","e","d","_","h","e","a","l","t","h","c","a","r","e">>

\* 'blue_cross_blue_shield'
blue_cross_blue_shield ==
    <<"b","l","u","e","_","c","r","o","s","s","_","b","l","u","e","_","s","h","i","e",
      "l","d">>

\* 'cigna'
cigna ==
    <<"c","i","g","n","a">>

\* The payer ids of the model, as the keys that documents and PAYER_POLICIES
\* are compared by, and how each is spelled.
PayerIds == {"", "aetna", "united_healthcare", "blue_cross_blue_shield", "cigna"}

Spelling ==
    [id \in PayerIds |->
        CASE id = "" -> <<>>
          [] id = "aetna" -> aetna
          [] id = "united_healthcare" -> united_healthcare
          [] id = "blue_cross_blue_shield" -> blue_cross_blue_shield
          [] id = "cigna" -> cigna]

\* The key a string of characters is.
PayerKey(s) == CHOOSE id \in PayerIds : Spelling[id] = s

\* 'MRI'
MriKey ==
    <<"M","R","I">>

\* 'knee_replacement'
KneeReplacementKey ==
    <<"k","n","e","e","_","r","e","p","l","a","c","e","m","e","n","t">>

\* PAYER_POLICIES: payer id -> name and policies, the policies kept by their
\* procedure type.
PAYER_POLICIES ==
    [id \in {"united_healthcare", "aetna", "blue_cross_blue_shield"} |->
        [name |-> CASE id = "united_healthcare" -> "United Healthcare"
                    [] id = "aetna" -> "Aetna"
                    [] id = "blue_cross_blue_shield" -> "Blue Cross Blue Shield",
         policies |-> [p \in {MriKey, KneeReplacementKey} |->
                          [requires_prior_auth |-> TRUE]]]]

\* ' prior authorization requirements '
QueryMiddle ==
    <<" ","p","r","i","o","r"," ","a","u","t","h","o","r","i","z","a","t","i","o","n",
      " ","r","e","q","u","i","r","e","m","e","n","t","s"," ">>

\* args.get(key, "").lower().replace(" ", "_")
Normalized(args, key) == replace(lower(Get(args, key, <<>>)), " ", "_")

\* f"{procedure_type} prior authorization requirements {payer_id.replace('_', ' ')}"
LookupQuery(procedure_type, payer_id) ==
    procedure_type \o QueryMiddle \o replace(payer_id, "_", " ")

\* PAYER_POLICIES.get(payer_id), and payer["policies"].get(procedure_type) if payer.
PayerOf(payer_id) ==
    IF PayerKey(payer_id) \in DOMAIN PAYER_POLICIES
    THEN PAYER_POLICIES[PayerKey(payer_id)] ELSE NoDict

StructuredPolicy(payer, procedure_type) ==
    IF payer # NoDict /\ procedure_type \in DOMAIN payer.policies
    THEN payer.policies[procedure_type] ELSE NoDict

\* The entry of rag_results made of one result of the search.
RagResult(r) ==
    [document_id |-> r.document_id, title |-> r.title,
     similarity_score |-> r.similarity_score, content |-> r.content]

\* The response of execute_lookup_payer_policy before the structured policy is
\* merged into it.
LookupResponse(payer_id, procedure_type, rag_results) ==
    [status |-> "success", payer_id |-> payer_id, procedure_type |-> procedure_type,
     retrieval_method |-> "RAG_vector_search",
     rag_results |-> [i \in 1..Len(rag_results) |-> RagResult(rag_results[i])]]

\* response["structured_policy"] = {...}
Merged(base, payer, structured_policy) ==
    [k \in DOMAIN base \cup {"structured_policy"} |->
        IF k = "structured_policy"
        THEN [payer_name |-> payer.name,
              requires_prior_auth |-> structured_policy.requires_prior_auth]
        ELSE base[k]]

\* What execute_lookup_payer_policy returns for the results of the search.
LookupOutput(payer_id, procedure_type, rag_results, payer, structured_policy) ==
    IF rag_results = <<>> /\ structured_policy = NoDict
    THEN [status |-> "not_found",
          message |-> <<"No policy found for", procedure_type, "under payer", payer_id>>]
    ELSE IF structured_policy # NoDict
    THEN Merged(LookupResponse(payer_id, procedure_type, rag_results),
                payer, structured_policy)
    ELSE LookupResponse(payer_id, procedure_type, rag_results)

\* A tool returns [raised, output, self]: the exception it raised or "none", the
\* dict it returned, and the engine it leaves.
Returns(output, self) == [raised |-> "none", output |-> output, self |-> self]

Throws(exception, self) == [raised |-> exception, output |-> NoDict, self |-> self]

\* execute_lookup_payer_policy behind the search.
LookupFound(payer_id, procedure_type, found) ==
    IF found.result.raised # "none" THEN Throws(found.result.raised, found.self)
    ELSE Returns(LookupOutput(payer_id, procedure_type, found.result.value,
                              PayerOf(payer_id),
                              StructuredPolicy(PayerOf(payer_id), procedure_type)),
                 found.self)

LookupNormalized(self, payer_id, procedure_type) ==
    LookupFound(payer_id, procedure_type,
                search(self, LookupQuery(procedure_type, payer_id), 2, PayerKey(payer_id)))

execute_lookup_payer_policy(self, args) ==
    LookupNormalized(self, Normalized(args, "payer_id"), Normalized(args, "procedure_type"))

\* execute_extract_diagnosis, execute_draft_auth_request, execute_route_to_human:
\* each returns a dict made of its arguments and of defaults.
execute_extract_diagnosis(self, args) ==
    Returns([status |-> "success",
             primary_diagnosis |-> Get(args, "primary_diagnosis", "")], self)

execute_draft_auth_request(self, args) ==
    Returns([status |-> "success",
             auth_request_letter |-> <<"PRIOR AUTHORIZATION REQUEST",
                                       Get(args, "procedure", "Procedure")>>], self)

execute_route_to_human(self, args) ==
    Returns([status |-> "routed", reason |-> Get(args, "reason", ""),
             urgency |-> Get(args, "urgency", "routine"),
             message |-> "Case has been flagged for human review."], self)

\* The score below which a prediction asks for human review.
ReviewBelow == 70

\* execute_predict_approval: comparing a value that is no number with 70 raises.
PredictOutput(confidence_score) ==
    [status |-> "success", confidence_score |-> confidence_score,
     requires_human_review |-> confidence_score < ReviewBelow]

execute_predict_approval(self, args) ==
    IF "number" \in DOMAIN Get(args, "confidence_score", Number(50))
    THEN Returns(PredictOutput(Get(args, "confidence_score", Number(50)).number), self)
    ELSE Throws("TypeError", self)

\* TOOL_EXECUTORS
ToolNames ==
    {"extract_diagnosis", "lookup_payer_policy", "draft_auth_request",
     "predict_approval", "route_to_human"}

TOOL_EXECUTORS(fn_name, self, fn_args) ==
    CASE fn_name = "extract_diagnosis" -> execute_extract_diagnosis(self, fn_args)
      [] fn_name = "lookup_payer_policy" -> execute_lookup_payer_policy(self, fn_args)
      [] fn_name = "draft_auth_request" -> execute_draft_auth_request(self, fn_args)
      [] fn_name = "predict_approval" -> execute_predict_approval(self, fn_args)
      [] fn_name = "route_to_human" -> execute_route_to_human(self, fn_args)

\* ------------------------------------------------------------------------
\* src/main.py: run_agent
\* ------------------------------------------------------------------------
max_iterations == 10

\* A JSON text, kept as the value json.loads makes of it, and the arguments of
\* a tool call that are no JSON text.
Json(value) == [loads |-> value]

Malformed == [error |-> "JSONDecodeError"]

\* A tool call of the model; its id names the call.
Call(fn_name, arguments) ==
    [id |-> <<"call", fn_name>>, name |-> fn_name, arguments |-> arguments]

\* The message appended for one tool call.
ToolMessage(tool_call, result) ==
    [role |-> "tool", tool_call_id |-> tool_call.id, content |-> Json(result)]

\* The locals of run_agent when the loop is entered, and the engine they run on.
StartRun ==
    [state |-> "running", calls |-> 0, raised |-> "none",
     messages |-> <<[role |-> "system"], [role |-> "user"]>>,
     tool_results |-> <<>>, result |-> NoDict]

\* "raise": the call ends in the exception.
Raise(st, exception) ==
    [st EXCEPT !.run.state = "raised", !.run.raised = exception]

\* "return {"status": "completed", "tool_results": tool_results, "agent_summary": ...}"
Return(st, agent_summary) ==
    [st EXCEPT !.run.state = "returned",
               !.run.result = [status |-> "completed",
                               tool_results |-> st.run.tool_results,
                               agent_summary |-> agent_summary]]

\* A tool call whose tool is in TOOL_EXECUTORS, behind the call of the executor.
Executed(st, tool_call, r) ==
    IF r.raised # "none" THEN Raise([st EXCEPT !.self = r.self], r.raised)
    ELSE [st EXCEPT !.self = r.self,
                    !.run.tool_results =
                        Append(@, [tool |-> tool_call.name,
                                   input |-> tool_call.arguments.loads,
                                   output |-> r.output]),
                    !.run.messages = Append(@, ToolMessage(tool_call, r.output))]

\* A tool call whose tool is not in TOOL_EXECUTORS.
UnknownTool(st, tool_call) ==
    [st EXCEPT !.run.messages =
        Append(@, ToolMessage(tool_call, [error |-> <<"Unknown tool", tool_call.name>>]))]

\* One pass of "for tool_call in choice.message.tool_calls".
ToolCall(st, tool_call) ==
    IF "loads" \notin DOMAIN tool_call.arguments THEN Raise(st, "JSONDecodeError")
    ELSE IF tool_call.name \in ToolNames
    THEN Executed(st, tool_call,
                  TOOL_EXECUTORS(tool_call.name, st.self, tool_call.arguments.loads))
    ELSE UnknownTool(st, tool_call)

RECURSIVE ToolCalls(_, _, _)
ToolCalls(st, tool_calls, k) ==
    IF k > Len(tool_calls) \/ st.run.state = "raised" THEN st
    ELSE ToolCalls(ToolCall(st, tool_calls[k]), tool_calls, k + 1)

\* A loop without an end.
LoopForever(locals) == FALSE

\* The end of one pass of "for _ in range(max_iterations)" that made tool calls:
\* behind the last pass the function returns.
LoopEnds(locals) == locals.calls = max_iterations

NextPass(st) ==
    IF st.run.state = "running" /\ LoopEnds(st.run)
    THEN Return(st, "Agent completed processing.")
    ELSE st

\* One pass of the loop on what the model answers: st is [run, self], the locals
\* and the engine.
Answered(st, reply) ==
    IF reply.finish_reason = "stop"
    THEN Return(st, IF reply.content = None THEN "" ELSE reply.content)
    ELSE IF reply.tool_calls # <<>>
    THEN NextPass(ToolCalls(
             [st EXCEPT !.run.messages =
                 Append(@, [role |-> "assistant", tool_calls |-> reply.tool_calls])],
             reply.tool_calls, 1))
    ELSE IF reply.content # None THEN Return(st, reply.content)
    ELSE Return(st, "Agent completed processing.")

Pass(st, reply) ==
    IF reply.raised # "none" THEN Raise([st EXCEPT !.run.calls = @ + 1], reply.raised)
    ELSE Answered([st EXCEPT !.run.calls = @ + 1], reply)

\* run_agent on the answers the model gives, one for each call, read as far as
\* the function runs.
RECURSIVE AgentOn(_, _, _)
AgentOn(st, replies, k) ==
    IF k > Len(replies) \/ st.run.state # "running" THEN st
    ELSE AgentOn(Pass(st, replies[k]), replies, k + 1)

run_agent(self, replies) == AgentOn([run |-> StartRun, self |-> self], replies, 1)

\* ------------------------------------------------------------------------
\* What the model may answer
\* ------------------------------------------------------------------------
\* 'MRI'
Mri ==
    <<"M","R","I">>

\* 'Knee Replacement'
KneeReplacement ==
    <<"K","n","e","e"," ","R","e","p","l","a","c","e","m","e","n","t">>

\* 'Aetna'
Aetna ==
    <<"A","e","t","n","a">>

\* 'Cigna'
Cigna ==
    <<"C","i","g","n","a">>

\* 'Blue Cross Blue Shield'
BlueCross ==
    <<"B","l","u","e"," ","C","r","o","s","s"," ","B","l","u","e"," ","S","h","i","e",
      "l","d">>

\* The arguments of lookup_payer_policy: payer_id missing, empty, a payer with
\* documents, a payer without policies, a payer with policies and no document
\* in the corpus of the model.
LookupArgs ==
    {[procedure_type |-> Mri],
     [payer_id |-> <<>>, procedure_type |-> Mri],
     [payer_id |-> Aetna, procedure_type |-> Mri],
     [payer_id |-> Aetna, procedure_type |-> KneeReplacement],
     [payer_id |-> Cigna, procedure_type |-> Mri],
     [payer_id |-> BlueCross, procedure_type |-> KneeReplacement]}

\* The arguments of predict_approval: confidence_score missing, a number on
\* either side of each threshold, no number.
PredictArgs ==
    {<<>>, [confidence_score |-> NotANumber]}
    \cup {[confidence_score |-> Number(n)] : n \in {69, 70, 85}}

\* Calls of the tools that touch nothing but their arguments, of a tool that
\* does not exist, and a call whose arguments are no JSON.
PlainCalls ==
    {Call("extract_diagnosis", Json(<<>>)),
     Call("draft_auth_request", Json(<<>>)),
     Call("route_to_human", Json([reason |-> "low confidence"])),
     Call("escalate", Json(<<>>)),
     Call("predict_approval", Malformed)}

PredictCalls == {Call("predict_approval", Json(args)) : args \in PredictArgs}

LookupCalls == {Call("lookup_payer_policy", Json(args)) : args \in LookupArgs}

\* The lists of tool calls of one answer: one call, or one of a few pairs.
CallLists(calls) ==
    {<<c>> : c \in calls}
    \cup {<<Call("predict_approval", Json([confidence_score |-> Number(85)])),
            Call("predict_approval", Json([confidence_score |-> Number(69)]))>>,
          <<Call("escalate", Json(<<>>)),
            Call("draft_auth_request", Json(<<>>))>>,
          <<Call("draft_auth_request", Json(<<>>)),
            Call("predict_approval", Json([confidence_score |-> Number(85)]))>>}

\* choice of response.choices[0], or the exception of client.chat.completions.create.
Reply(finish_reason, content, tool_calls) ==
    [raised |-> "none", finish_reason |-> finish_reason, content |-> content,
     tool_calls |-> tool_calls]

APIError ==
    [raised |-> "APIError", finish_reason |-> None, content |-> None, tool_calls |-> <<>>]

\* Answers that end the run: "stop" with or without content and tool calls, an
\* answer of another finish reason with neither tool calls nor content or with
\* content only, an exception.
LastReplies ==
    {Reply("stop", content, tool_calls) :
        content \in {None, "Done."},
        tool_calls \in {<<>>, <<Call("predict_approval",
                                     Json([confidence_score |-> Number(69)]))>>}}
    \cup {Reply("length", content, <<>>) : content \in {None, "Partial."}}
    \cup {APIError}

ToolReplies(calls) == {Reply("tool_calls", None, l) : l \in CallLists(calls)}

\* Every answer of the model, and the answers without a call of a known tool.
Replies == LastReplies \cup ToolReplies(PlainCalls \cup PredictCalls \cup LookupCalls)

RepliesUnknownTool == LastReplies \cup {Reply("tool_calls", None, <<Call("escalate", Json(<<>>))>>)}

\* ------------------------------------------------------------------------
\* run_agent taken alone: one call, on a corpus of one document of each of two
\* payers, the model answering freely during the first MaxVaried calls and
\* with no known tool afterwards
\* ------------------------------------------------------------------------
AgentCorpus ==
    <<Document(1, [payer |-> "Aetna", payer_id |-> "aetna",
                   category |-> "knee_replacement", title |-> "Aetna knee policy",
                   content |-> KneeText]),
      Document(2, [payer |-> "United Healthcare", payer_id |-> "united_healthcare",
                   category |-> "MRI", title |-> "UHC imaging policy",
                   content |-> HipText])>>

InitAgent ==
    /\ documents = AgentCorpus
    /\ vocab = EmptyDict
    /\ idf = EmptyDict
    /\ doc_vectors = <<>>
    /\ initialized = FALSE
    /\ last = NoCall(documents)
    /\ pc = [t \in Threads |-> "idle"]
    /\ frame = [t \in Threads |-> IdleFrame]
    /\ text = <<>>
    /\ tokens = NoTokens
    /\ run = StartRun
    /\ cases_db = EmptyDict
    /\ review_queue = <<>>
    /\ response = NoResponse

\* One pass of the loop of run_agent on an answer of the model.
ModelCall(reply) ==
    /\ run.state = "running"
    /\ \E st \in {Pass([run |-> run, self |-> Self], reply)} :
          /\ run' = st.run
          /\ Becomes(st.self)
    /\ UNCHANGED <<last, pc, frame, tokenizer, cases_db, review_queue, response>>

\* The model answers with tool calls, known tools among them.
AgentTools ==
    /\ run.state = "running"
    /\ run.calls < MaxVaried
    /\ \E reply \in Replies \ RepliesUnknownTool : ModelCall(reply)

\* The model answers with a call of a tool that does not exist.
AgentUnknownTool ==
    /\ run.state = "running"
    /\ \E reply \in RepliesUnknownTool \ LastReplies : ModelCall(reply)

\* The model answers without tool calls, or with "stop", or not at all.
AgentLast ==
    /\ run.state = "running"
    /\ \E reply \in LastReplies : ModelCall(reply)

NextAgent == AgentTools \/ AgentUnknownTool \/ AgentLast

\* run_agent is one synchronous loop: each pass goes on as soon as the call of
\* the model has returned or raised.
SpecAgent == InitAgent /\ [][NextAgent]_vars /\ WF_vars(NextAgent)

\* The calls of lookup_payer_policy the run has executed so far.
Lookups ==
    {i \in 1..Len(run.tool_results) : run.tool_results[i].tool = "lookup_payer_policy"}

\* The payer a call of lookup_payer_policy asks for.
Requested(i) == PayerKey(Normalized(run.tool_results[i].input, "payer_id"))

\* No policy for the procedure asked for is kept under the payer asked for:
\* PAYER_POLICIES has none, and the corpus has no document of the payer.
NoPolicyFor(i) ==
    /\ StructuredPolicy(PayerOf(Normalized(run.tool_results[i].input, "payer_id")),
                        Normalized(run.tool_results[i].input, "procedure_type")) = NoDict
    /\ \A d \in 1..Len(documents) : documents[d].payer_id # Requested(i)

\* C25: execute_lookup_payer_policy returns payer-specific results: every
\* document of rag_results belongs to the payer_id asked for, whatever payer_id
\* and procedure_type are given, a missing or empty payer_id included, and the
\* status is not_found whenever there is no policy for the procedure under the
\* payer.
C25_LookupPayerSpecific ==
    \A i \in Lookups :
        /\ run.tool_results[i].output.status = "success" =>
              \A k \in 1..Len(run.tool_results[i].output.rag_results) :
                  DocOf(run.tool_results[i].output.rag_results[k]).payer_id = Requested(i)
        /\ NoPolicyFor(i) => run.tool_results[i].output.status = "not_found"

\* The tool calls of the assistant messages from position k on, in order, and
\* the messages that answer them.
RECURSIVE CallsFrom(_, _)
CallsFrom(messages, k) ==
    IF k > Len(messages) THEN <<>>
    ELSE (IF messages[k].role = "assistant" THEN messages[k].tool_calls ELSE <<>>)
         \o CallsFrom(messages, k + 1)

IsToolMessage(m) == m.role = "tool"

ToolMessages(messages) == SelectSeq(messages, IsToolMessage)

\* The positions, among the calls made, of the calls of known tools.
KnownCalls(calls) == {i \in 1..Len(calls) : calls[i].name \in ToolNames}

\* tool_results holds the calls of known tools among calls, in their order, each
\* with the arguments it was made with and the output that was sent back for it.
HoldsKnownCalls(tool_results, calls, answers) ==
    /\ Len(answers) = Len(calls)
    /\ Len(tool_results) = Cardinality(KnownCalls(calls))
    /\ \A k \in 1..Len(tool_results) :
          tool_results[k] =
              [tool |-> calls[Kth(KnownCalls(calls), k)].name,
               input |-> calls[Kth(KnownCalls(calls), k)].arguments.loads,
               output |-> answers[Kth(KnownCalls(calls), k)].content.loads]

\* C29: run_agent ends after at most 10 calls of the model, whatever the model
\* answers (stop, tool calls, tools that do not exist, neither content nor tool
\* calls), and whenever it returns, it returns the status "completed" and
\* tool_results that hold, in the order of the calls, the calls of known tools
\* that were executed and no other.
C29_AgentTerminates ==
    /\ [](run.calls <= max_iterations)
    /\ [](run.state = "returned" =>
            /\ run.result.status = "completed"
            /\ HoldsKnownCalls(run.result.tool_results, CallsFrom(run.messages, 1),
                               ToolMessages(run.messages)))
    /\ <>(run.state # "running")

\* The run returned behind its tenth call of the model, with the calls of two
\* known tools in tool_results and calls of a tool that does not exist between
\* them.
C29_Witness ==
    /\ run.state = "returned"
    /\ run.calls = max_iterations
    /\ Len(run.result.tool_results) = 2
    /\ Len(CallsFrom(run.messages, 1)) > 2
    /\ \E i \in KnownCalls(CallsFrom(run.messages, 1)) :
          \E j \in 1..(i - 1) : j \notin KnownCalls(CallsFrom(run.messages, 1))

\* ------------------------------------------------------------------------
\* src/main.py: the case store and its endpoints
\* ------------------------------------------------------------------------
\* The id of a new case: uuid4 is taken never to give an id twice, and the n-th
\* case of the store gets the id <<"PA", n>>.
NewCaseId(db) == <<"PA", DictLen(db) + 1>>

\* dict.update(new), and db[key] = value.
Update(d, new) ==
    [k \in DOMAIN d \cup DOMAIN new |-> IF k \in DOMAIN new THEN new[k] ELSE d[k]]

Put(db, key, value) ==
    [k \in DOMAIN db \cup {key} |-> IF k = key THEN value ELSE db[k]]

\* list.remove(x): the first x leaves the list.
Remove(list, x) ==
    SubSeq(list, 1, (CHOOSE i \in 1..Len(list) : list[i] = x /\ \A j \in 1..(i - 1) : list[j] # x) - 1)
    \o SubSeq(list, (CHOOSE i \in 1..Len(list) : list[i] = x /\ \A j \in 1..(i - 1) : list[j] # x) + 1,
              Len(list))

Contains(list, x) == \E i \in 1..Len(list) : list[i] = x

\* case_data of submit_case: the fields of the submission and submitted_at are
\* carried unchanged and left out.
CaseData(case_id) == [case_id |-> case_id, status |-> "processing"]

\* The key results before the loop over the tool results, and one pass of the
\* loop.
KeyDefaults == [confidence |-> 50, requires_review |-> FALSE, auth_letter |-> ""]

\* Faulty variant: only the first prediction of a run is taken.
PredictedOnce(key, tr) ==
    IF tr.tool = "predict_approval" /\ key.confidence = 50 /\ ~key.requires_review
    THEN [key EXCEPT !.confidence = Get(tr.output, "confidence_score", 50),
                     !.requires_review = Get(tr.output, "requires_human_review", FALSE)]
    ELSE key

Predicted(key, tr) ==
    IF tr.tool = "predict_approval"
    THEN [key EXCEPT !.confidence = Get(tr.output, "confidence_score", 50),
                     !.requires_review = Get(tr.output, "requires_human_review", FALSE)]
    ELSE key

Drafted(key, tr) ==
    IF tr.tool = "draft_auth_request"
    THEN [key EXCEPT !.auth_letter = Get(tr.output, "auth_request_letter", "")]
    ELSE key

RECURSIVE KeyResults(_, _, _)
KeyResults(key, tool_results, k) ==
    IF k > Len(tool_results) THEN key
    ELSE KeyResults(Drafted(Predicted(key, tool_results[k]), tool_results[k]),
                    tool_results, k + 1)

\* The score from which a case the agent has not flagged is approved.
AutoApproveFrom == 85

StatusOf(key) ==
    IF key.requires_review THEN "pending_review"
    ELSE IF key.confidence >= AutoApproveFrom THEN "auto_approved"
    ELSE "ready_to_submit"

\* cases_db[case_id].update({...}).  No endpoint reads agent_result from the
\* store: the model keeps it with the case that is sent back and leaves it out
\* of the case that is stored.
Processed(case, key) ==
    Update(case, [status |-> StatusOf(key), confidence_score |-> key.confidence,
                  requires_human_review |-> key.requires_review,
                  auth_letter |-> key.auth_letter])

\* "if requires_review: review_queue.append(case_id)"
Enqueued(queue, case_id, key) ==
    IF key.requires_review THEN Append(queue, case_id) ELSE queue

\* The store and the response that submit_case leaves when run_agent has
\* returned: out is [db, queue, response].
CaseProcessed(db, queue, case_id, agent_result, key) ==
    [db |-> Put(db, case_id, Processed(db[case_id], key)),
     queue |-> Enqueued(queue, case_id, key),
     response |-> [op |-> "submit_case", case_id |-> case_id, code |-> 200,
                   body |-> Update(Processed(db[case_id], key),
                                   [agent_result |-> agent_result])]]

\* Faulty variant: the case of a failed run is flagged and put in the queue.
CaseFailedQueued(db, queue, case_id, exception) ==
    [db |-> Put(db, case_id, Update(db[case_id], [status |-> "error", error |-> exception])),
     queue |-> Append(queue, case_id),
     response |-> [op |-> "submit_case", case_id |-> case_id, code |-> 500,
                   detail |-> <<"Agent error", exception>>]]

\* The store and the response that submit_case leaves when run_agent has raised.
CaseFailed(db, queue, case_id, exception) ==
    [db |-> Put(db, case_id, Update(db[case_id], [status |-> "error", error |-> exception])),
     queue |-> queue,
     response |-> [op |-> "submit_case", case_id |-> case_id, code |-> 500,
                   detail |-> <<"Agent error", exception>>]]

\* submit_case behind "cases_db[case_id] = case_data", on the locals run_agent ends with.
CaseDone(db, queue, case_id, locals) ==
    IF locals.state = "raised" THEN CaseFailed(db, queue, case_id, locals.raised)
    ELSE CaseProcessed(db, queue, case_id, locals.result,
                       KeyResults(KeyDefaults, Get(locals.result, "tool_results", <<>>), 1))

submit_case(db, queue, locals) ==
    CaseDone(Put(db, NewCaseId(db), CaseData(NewCaseId(db))), queue, NewCaseId(db), locals)

\* submit_review: reviewed_at is left out.
Reviewed(case, decision) ==
    Update(case, [status |-> decision.decision, reviewer_notes |-> decision.reviewer_notes])

Dequeued(queue, case_id) ==
    IF Contains(queue, case_id) THEN Remove(queue, case_id) ELSE queue

submit_review(db, queue, decision) ==
    IF decision.case_id \notin DOMAIN db
    THEN [db |-> db, queue |-> queue,
          response |-> [op |-> "submit_review", case_id |-> decision.case_id,
                        code |-> 404, detail |-> "Case not found"]]
    ELSE [db |-> Put(db, decision.case_id, Reviewed(db[decision.case_id], decision)),
          queue |-> Dequeued(queue, decision.case_id),
          response |-> [op |-> "submit_review", case_id |-> decision.case_id,
                        code |-> 200, body |-> Reviewed(db[decision.case_id], decision)]]

\* get_stats: the number of cases, the number of cases of each status and the
\* length of review_queue; average_confidence is left out.
StatusCounts(db) ==
    [s \in {db[id].status : id \in DOMAIN db} |->
        Cardinality({id \in DOMAIN db : db[id].status = s})]

get_stats(db, queue) ==
    [op |-> "get_stats", code |-> 200,
     body |-> [total_cases |-> DictLen(db), statuses |-> StatusCounts(db),
               pending_reviews |-> Len(queue)]]

\* ------------------------------------------------------------------------
\* The endpoints, one call at a time: submit_case is a coroutine that calls
\* run_agent without an await, so no other handler runs before it has ended
\* ------------------------------------------------------------------------
\* What the model answers while a case is processed.  Answers the run goes on
\* behind: a prediction below 70 and one of 70, two predictions in one
\* answer, a letter and a prediction of 85 in one answer.
GoingReplies ==
    {Reply("tool_calls", None,
           <<Call("predict_approval", Json([confidence_score |-> Number(n)]))>>) :
        n \in {69, 70}}
    \cup {Reply("tool_calls", None,
                <<Call("predict_approval", Json([confidence_score |-> Number(85)])),
                  Call("predict_approval", Json([confidence_score |-> Number(69)]))>>),
          Reply("tool_calls", None,
                <<Call("draft_auth_request", Json(<<>>)),
                  Call("predict_approval", Json([confidence_score |-> Number(85)]))>>)}

\* Answers that end the run: "stop", an exception of the client, a prediction
\* that is no number.
EndingReplies ==
    {Reply("stop", None, <<>>), APIError,
     Reply("tool_calls", None,
           <<Call("predict_approval", Json([confidence_score |-> NotANumber]))>>)}

\* The answers of one run: at most MaxReplies of them, the last one ending the
\* run.
Scripts ==
    UNION {{before \o <<ending>> : before \in [1..n -> GoingReplies],
                                    ending \in EndingReplies} :
             n \in 0..(MaxReplies - 1)}

\* ReviewDecision: decision is any string, reviewer_notes defaults to "".
Decisions == {"approved", "denied", "pending_review"}

CaseIds == {<<"PA", n>> : n \in 1..(MaxCases + 1)}

InitService ==
    /\ documents = AgentCorpus
    /\ vocab = EmptyDict
    /\ idf = EmptyDict
    /\ doc_vectors = <<>>
    /\ initialized = FALSE
    /\ last = NoCall(documents)
    /\ pc = [t \in Threads |-> "idle"]
    /\ frame = [t \in Threads |-> IdleFrame]
    /\ text = <<>>
    /\ tokens = NoTokens
    /\ run = NoRun
    /\ cases_db = EmptyDict
    /\ review_queue = <<>>
    /\ response = NoResponse

\* The store and the response take the values of out.
Leaves(out) ==
    /\ cases_db' = out.db
    /\ review_queue' = out.queue
    /\ response' = out.response

\* POST /api/cases
SubmitCase(replies) ==
    /\ DictLen(cases_db) < MaxCases
    /\ \E st \in {run_agent(Self, replies)} :
          /\ st.run.state # "running"
          /\ Becomes(st.self)
          /\ Leaves(submit_case(cases_db, review_queue, st.run))
    /\ UNCHANGED <<last, pc, frame, tokenizer, run>>

\* POST /api/review
SubmitReview(decision) ==
    /\ Leaves(submit_review(cases_db, review_queue, decision))
    /\ UNCHANGED <<documents, vocab, idf, doc_vectors, initialized, last, pc, frame,
                   tokenizer, run>>

\* GET /api/stats
GetStats ==
    /\ response' = get_stats(cases_db, review_queue)
    /\ UNCHANGED <<documents, vocab, idf, doc_vectors, initialized, last, pc, frame,
                   tokenizer, run, cases_db, review_queue>>

NextService ==
    \/ \E replies \in Scripts : SubmitCase(replies)
    \/ \E case_id \in CaseIds, decision \in Decisions :
          SubmitReview([case_id |-> case_id, decision |-> decision, reviewer_notes |-> ""])
    \/ GetStats

SpecService == InitService /\ [][NextService]_vars

\* submit_case has just ended and sent back the case, or the HTTP error 500.
CaseCompleted == response.op = "submit_case" /\ response.code = 200

CaseErrored == response.op = "submit_case" /\ response.code = 500

\* C23: every case whose recorded confidence_score is below 70 when submit_case
\* ends is routed to human review: its status is pending_review,
\* requires_human_review is true and its id is in review_queue, whatever tool
\* calls the agent has made, none included.
C23_LowConfidenceRouted ==
    (CaseCompleted /\ cases_db[response.case_id].confidence_score < 70) =>
        /\ cases_db[response.case_id].status = "pending_review"
        /\ cases_db[response.case_id].requires_human_review
        /\ Contains(review_queue, response.case_id)

\* submit_review has just accepted a decision.
ReviewAccepted == response.op = "submit_review" /\ response.code = 200

\* C24: after a call of submit_review that is accepted (the case id exists) the
\* status of the case is "approved" or "denied" and its id is no longer in
\* review_queue.
C24_ReviewDecides ==
    ReviewAccepted =>
        /\ cases_db[response.case_id].status \in {"approved", "denied"}
        /\ ~Contains(review_queue, response.case_id)

\* The ids of the cases of status pending_review.
PendingCases == {id \in DOMAIN cases_db : cases_db[id].status = "pending_review"}

\* C26: in every state of the case store review_queue holds the ids of the
\* cases of status pending_review and no other, each once, so that the
\* pending_reviews of get_stats is the number of cases of status pending_review.
C26_QueueIsPending ==
    /\ {review_queue[i] : i \in 1..Len(review_queue)} = PendingCases
    /\ \A i, j \in 1..Len(review_queue) : review_queue[i] = review_queue[j] => i = j
    /\ get_stats(cases_db, review_queue).body.pending_reviews = Cardinality(PendingCases)
    /\ response.op = "get_stats" =>
          response.body.pending_reviews = Cardinality(PendingCases)

\* The positions of the results of predict_approval among tool results.
Predictions(tool_results) ==
    {i \in 1..Len(tool_results) : tool_results[i].tool = "predict_approval"}

\* The greatest member of a non-empty set of numbers.
Greatest(set) == CHOOSE i \in set : \A j \in set : j <= i

\* The status that follows from one result of predict_approval.
Follows(status, output) ==
    status = IF output.requires_human_review THEN "pending_review"
             ELSE IF output.confidence_score >= 85 THEN "auto_approved"
             ELSE "ready_to_submit"

\* C27: when submit_case ends normally the status of the case follows from the
\* last result of predict_approval alone: pending_review if
\* requires_human_review is true, else auto_approved if confidence_score >= 85,
\* else ready_to_submit; so no case is auto_approved with a confidence below 85
\* or while flagged for review, and no case keeps the status processing.
C27_StatusFromLastPrediction ==
    CaseCompleted =>
        /\ Predictions(response.body.agent_result.tool_results) # {} =>
              Follows(cases_db[response.case_id].status,
                      response.body.agent_result.tool_results[
                          Greatest(Predictions(response.body.agent_result.tool_results))].output)
        /\ cases_db[response.case_id].status = "auto_approved" =>
              /\ cases_db[response.case_id].confidence_score >= 85
              /\ ~cases_db[response.case_id].requires_human_review
        /\ cases_db[response.case_id].status # "processing"
        /\ response.body.status = cases_db[response.case_id].status

\* A case was submitted whose run held a prediction of 85 and behind it a
\* prediction of 69: it is pending review.
C27_Witness ==
    /\ CaseCompleted
    /\ Cardinality(Predictions(response.body.agent_result.tool_results)) = 2
    /\ response.body.agent_result.tool_results[1].output.confidence_score = 85
    /\ cases_db[response.case_id].status = "pending_review"

\* C28: when run_agent raises inside submit_case, the case stays in cases_db
\* with the status "error" and the text of the error, it is not put in
\* review_queue, no other case is changed and the caller receives the HTTP
\* error 500.
C28_AgentErrorRecorded ==
    /\ [](CaseErrored =>
            /\ response.case_id \in DOMAIN cases_db
            /\ cases_db[response.case_id].status = "error"
            /\ "error" \in DOMAIN cases_db[response.case_id]
            /\ response.detail = <<"Agent error", cases_db[response.case_id].error>>
            /\ ~Contains(review_queue, response.case_id))
    /\ [][(DOMAIN cases_db' # DOMAIN cases_db /\ response'.code = 500) =>
            /\ response'.op = "submit_case"
            /\ DOMAIN cases_db' = DOMAIN cases_db \cup {response'.case_id}
            /\ \A id \in DOMAIN cases_db : cases_db'[id] = cases_db[id]
            /\ review_queue' = review_queue]_vars
    /\ [][(DOMAIN cases_db' # DOMAIN cases_db /\ response'.code # 500) =>
            cases_db'[response'.case_id].status # "error"]_vars

\* The run of a second case raised, behind a prediction of 69, while the first
\* case was waiting for its review.
C28_Witness ==
    /\ CaseErrored
    /\ response.case_id = <<"PA", 2>>
    /\ cases_db[response.case_id].error = "TypeError"
    /\ review_queue = <<(<<"PA", 1>>)>>
    /\ cases_db[<<"PA", 1>>].status = "pending_review"

====
